---- MODULE Spec2Model ----
(***************************************************************************)
(* State-machine model of the CycleGAN training driver of aging_gan:       *)
(* main, perform_epoch, perform_train_step, evaluate_epoch and             *)
(* make_schedulers of src/src/aging_gan/train.py, and of the data split    *)
(* of prepare_dataset and make_unpaired_loader of                          *)
(* src/src/aging_gan/data.py.                                              *)
(*                                                                         *)
(* The four networks are opaque: a parameter set is a version number that  *)
(* an optimizer step with a non-empty gradient and a non-zero learning     *)
(* rate advances.  A tensor is the set of networks whose parameters its    *)
(* autograd graph reaches (deps) and the parameter version of each network *)
(* it was computed with (uses).  Floats are exact rationals num/den, NaN   *)
(* or +inf.  Logging, sample generation and archival are external sinks    *)
(* and are left out.                                                       *)
(***************************************************************************)
EXTENDS Integers, Sequences, FiniteSets, TLC

VARIABLES cfg, pc, error, epoch, batch, split,
          params, optState, grad, mode, sched, lr,
          tens, entryParams, stepLog, lastStep,
          fidAcc, fidOracle, fidPass, computeCalls, metrics, n_batches,
          val_metrics, best_fid, disk, fidHist, bestWrites, currentWrites,
          test_metrics, testFile, loaded, evalHist,
          files, rng, randOracle, loaders, dataPc, dataError

vars == <<cfg, pc, error, epoch, batch, split,
          params, optState, grad, mode, sched, lr,
          tens, entryParams, stepLog, lastStep,
          fidAcc, fidOracle, fidPass, computeCalls, metrics, n_batches,
          val_metrics, best_fid, disk, fidHist, bestWrites, currentWrites,
          test_metrics, testFile, loaded, evalHist,
          files, rng, randOracle, loaders, dataPc, dataError>>

----------------------------------------------------------------------------
\* Bounds of the model.

\* num_train_epochs of the runs that follow the checkpoint policy
MaxEpochs == 5
\* num_train_epochs of the runs that vary the loader lengths
StepEpochs == 2
\* len(train_loader), len(val_loader), len(test_loader)
MaxTrainBatches == 2
MaxValBatches == 2
MaxTestBatches == 1
\* the raw FID scores the accumulator may return are 1..MaxFid, or NaN
MaxFid == 5
\* the runs of more than ExampleEpochs epochs draw their FID scores from
\* 1..LongRunFid, or NaN
ExampleEpochs == 4
LongRunFid == 2
\* the number of image files of a dataset
MaxFiles == 20

----------------------------------------------------------------------------
\* Python floats: an exact rational, NaN or +inf.

Float(n) == [kind |-> "num", num |-> n, den |-> 1]

NaN == [kind |-> "nan", num |-> 0, den |-> 1]

Inf == [kind |-> "inf", num |-> 0, den |-> 1]

IsFinite(a) == a.kind = "num"

\* a < b on floats: False whenever either side is NaN
Lt(a, b) ==
    IF a.kind = "nan" \/ b.kind = "nan" THEN FALSE
    ELSE IF a.kind = "inf" THEN FALSE
    ELSE IF b.kind = "inf" THEN TRUE
    ELSE a.num * b.den < b.num * a.den

\* a == b on floats
Eq(a, b) ==
    IF a.kind = "nan" \/ b.kind = "nan" THEN FALSE
    ELSE IF a.kind = "inf" \/ b.kind = "inf" THEN a.kind = b.kind
    ELSE a.num * b.den = b.num * a.den

Le(a, b) == Lt(a, b) \/ Eq(a, b)

\* a / n for an integer n # 0 (n = 0 raises ZeroDivisionError in the caller)
TrueDiv(a, n) == IF a.kind = "num" THEN [a EXCEPT !.den = a.den * n] ELSE a

\* a + k for an integer k
AddInt(a, k) == IF a.kind = "num" THEN [a EXCEPT !.num = a.num + k * a.den] ELSE a

----------------------------------------------------------------------------
\* Networks, tensors and gradients.

Models == {"G", "F", "DX", "DY"}

Generators == {"G", "F"}

Discriminators == {"DX", "DY"}

NoUse == [m \in Models |-> -1]

\* a batch tensor x or y of the loader: no graph, computed from no network
RealData == [deps |-> {}, uses |-> NoUse]

MaxOf(a, b) == IF a >= b THEN a ELSE b

\* m(t): the forward pass of network m on tensor t with parameters p
Forward(m, t, p, grad_enabled) ==
    [deps |-> IF grad_enabled THEN t.deps \cup {m} ELSE {},
     uses |-> [t.uses EXCEPT ![m] = p[m]]]

\* a loss built from two tensors (mse, l1, +, *)
Combine(a, b) ==
    [deps |-> a.deps \cup b.deps,
     uses |-> [m \in Models |-> MaxOf(a.uses[m], b.uses[m])]]

\* t.detach(): same values, no graph
Detach(t) == [t EXCEPT !.deps = {}]

NoGrad == [src |-> {}, clipped |-> FALSE]

\* a zero_grad that leaves the accumulated gradients in place
ZeroGradKeeps(g, ms) == g

\* optimizer.zero_grad(set_to_none=True) on the networks ms
ZeroGrad(g, ms) == [m \in Models |-> IF m \in ms THEN NoGrad ELSE g[m]]

\* accelerator.backward(loss): every network the graph reaches accumulates
\* the gradient of this loss
Backward(g, loss, name) ==
    [m \in Models |->
        IF m \in loss.deps
        THEN [src |-> g[m].src \cup {name}, clipped |-> FALSE]
        ELSE g[m]]

\* accelerator.clip_grad_norm_(parameters of ms, max_norm=1.0)
ClipGradNorm(g, ms) ==
    [m \in Models |->
        IF m \in ms /\ g[m].src # {} THEN [g[m] EXCEPT !.clipped = TRUE]
        ELSE g[m]]

\* ghost: what the last optimizer step of a network applied
NoStep == [src |-> {}, clipped |-> FALSE, lr |-> Float(0), mode |-> "none",
           fired |-> FALSE]

NoTensors ==
    [fake_x |-> RealData, fake_y |-> RealData, rec_x |-> RealData,
     rec_y |-> RealData, loss_gen_total |-> RealData,
     loss_DX |-> RealData, loss_DY |-> RealData]

----------------------------------------------------------------------------
\* make_schedulers

\* a linear decay over the whole run, with no constant first half
LrLambdaNoPlateau(n, e) ==
    LET q == [kind |-> "num", num |-> n - e, den |-> n]
    IN  IF Lt(q, Float(0)) THEN Float(0) ELSE q

\* the schedule indexed by the 1-based epoch number: its value at e is that
\* of _lr_lambda at e + 1
LrLambdaOneBased(n, e) ==
    LET start_decay == n \div 2
        q == [kind |-> "num", num |-> n - (e + 1), den |-> n - start_decay]
    IN  IF e + 1 < start_decay THEN Float(1)
        ELSE IF Lt(q, Float(0)) THEN Float(0) ELSE q

\* _lr_lambda(epoch) for n_epochs = n; n - n // 2 is non-zero for n >= 1
LrLambda(n, e) ==
    LET start_decay == n \div 2
        q == [kind |-> "num", num |-> n - e, den |-> n - start_decay]
    IN  IF e < start_decay THEN Float(1)
        ELSE IF Lt(q, Float(0)) THEN Float(0) ELSE q

\* LambdaLR(opt, lr_lambda): the constructor performs the initial step,
\* which evaluates _lr_lambda(0)
SchedulerInitRaises(n) == ~(0 < n \div 2) /\ n - n \div 2 = 0


----------------------------------------------------------------------------
\* Variable groups.

\* the state of prepare_dataset
dataV == <<files, rng, randOracle, loaders, dataPc, dataError>>

ctlV == <<cfg, dataV, error, epoch, batch, split>>

netV == <<params, optState, mode>>

schedV == <<sched, lr>>

stepV == <<tens, entryParams, stepLog, lastStep>>

evalV == <<fidAcc, fidOracle, fidPass, computeCalls, metrics, n_batches>>

runV == <<val_metrics, best_fid, disk, fidHist, bestWrites, currentWrites,
          test_metrics, testFile, loaded, evalHist>>

\* the state of the training run
trainV == <<cfg, pc, error, epoch, batch, split, netV, schedV, grad, stepV,
           evalV, runV>>

\* an uncaught exception ends the process
Raise(name) == pc' = "crashed" /\ error' = name

----------------------------------------------------------------------------
\* perform_train_step

\* the discriminator updates placed before the generator update
TrainStepOrderDiscFirst ==
    << "ts_zero_DX", "ts_loss_DX", "ts_backward_DX", "ts_clip_DX", "ts_step_DX",
       "ts_zero_DY", "ts_loss_DY", "ts_backward_DY", "ts_clip_DY", "ts_step_DY",
       "ts_zero_gen", "ts_forward", "ts_gen_loss", "ts_gen_backward",
       "ts_gen_clip", "ts_step_G", "ts_step_F" >>

\* the statements of perform_train_step in program order
TrainStepOrder ==
    << "ts_zero_gen", "ts_forward", "ts_gen_loss", "ts_gen_backward",
       "ts_gen_clip", "ts_step_G", "ts_step_F",
       "ts_zero_DX", "ts_loss_DX", "ts_backward_DX", "ts_clip_DX", "ts_step_DX",
       "ts_zero_DY", "ts_loss_DY", "ts_backward_DY", "ts_clip_DY", "ts_step_DY" >>

\* the statement that follows statement p; the return follows the last one
After(p) ==
    LET i == CHOOSE j \in 1..Len(TrainStepOrder) : TrainStepOrder[j] = p
    IN  IF i < Len(TrainStepOrder) THEN TrainStepOrder[i + 1] ELSE "ts_return"

Advance == pc' = After(pc) /\ stepLog' = Append(stepLog, pc)

\* the statements of the update of discriminator d
DPc ==
    [DX |-> [zero |-> "ts_zero_DX", loss |-> "ts_loss_DX",
             backward |-> "ts_backward_DX", clip |-> "ts_clip_DX",
             step |-> "ts_step_DX", lossName |-> "loss_DX", fake |-> "fake_x"],
     DY |-> [zero |-> "ts_zero_DY", loss |-> "ts_loss_DY",
             backward |-> "ts_backward_DY", clip |-> "ts_clip_DY",
             step |-> "ts_step_DY", lossName |-> "loss_DY", fake |-> "fake_y"]]

\* loss_gen_total: adversarial terms through DX and DY, cycle terms, identity terms
GenTotalLoss(t, p) ==
    LET loss_f_adv == Forward("DX", t.fake_x, p, TRUE)
        loss_g_adv == Forward("DY", t.fake_y, p, TRUE)
        loss_cyc == Combine(t.rec_x, t.rec_y)
        loss_id == Combine(Forward("G", RealData, p, TRUE),
                           Forward("F", RealData, p, TRUE))
    IN  Combine(Combine(loss_g_adv, loss_f_adv), Combine(loss_cyc, loss_id))

\* the fake fed to the discriminator with its graph attached
DiscFakeInputAttached(fake) == fake

\* what a discriminator is fed as its fake input: fake.detach()
DiscFakeInput(fake) == Detach(fake)

\* loss_DX / loss_DY: 0.5 * (real_loss + fake_loss)
DiscLoss(d, fake, p) ==
    Combine(Forward(d, RealData, p, TRUE),
            Forward(d, DiscFakeInput(fake), p, TRUE))

\* the networks an optimizer step of opt_<m> updates
StepTargets(m) == {m}

\* opt.step() of Adam: a parameter with no gradient is skipped; a zero
\* learning rate leaves the parameters where they are
OptimizerStep(m) ==
    /\ params' = [k \in Models |->
                    IF k \in StepTargets(m) /\ grad[k].src # {} /\ ~Eq(lr[m], Float(0))
                    THEN params[k] + 1 ELSE params[k]]
    /\ optState' = [optState EXCEPT ![m] = IF grad[m].src # {} THEN @ + 1 ELSE @]
    /\ lastStep' = [lastStep EXCEPT ![m] =
                      [src |-> grad[m].src, clipped |-> grad[m].clipped,
                       lr |-> lr[m], mode |-> mode[m], fired |-> TRUE]]

TsZeroGen ==
    /\ pc = "ts_zero_gen"
    /\ grad' = ZeroGrad(grad, Generators)
    /\ Advance
    /\ UNCHANGED <<ctlV, netV, schedV, tens, entryParams, lastStep, evalV, runV>>

TsForward ==
    /\ pc = "ts_forward"
    /\ LET fake_x == Forward("F", RealData, params, TRUE)
           fake_y == Forward("G", RealData, params, TRUE)
       IN  tens' = [tens EXCEPT !.fake_x = fake_x, !.fake_y = fake_y,
                                !.rec_x = Forward("F", fake_y, params, TRUE),
                                !.rec_y = Forward("G", fake_x, params, TRUE)]
    /\ Advance
    /\ UNCHANGED <<ctlV, netV, schedV, grad, entryParams, lastStep, evalV, runV>>

TsGenLoss ==
    /\ pc = "ts_gen_loss"
    /\ tens' = [tens EXCEPT !.loss_gen_total = GenTotalLoss(tens, params)]
    /\ Advance
    /\ UNCHANGED <<ctlV, netV, schedV, grad, entryParams, lastStep, evalV, runV>>

TsGenBackward ==
    /\ pc = "ts_gen_backward"
    /\ grad' = Backward(grad, tens.loss_gen_total, "loss_gen_total")
    /\ Advance
    /\ UNCHANGED <<ctlV, netV, schedV, tens, entryParams, lastStep, evalV, runV>>

TsGenClip ==
    /\ pc = "ts_gen_clip"
    /\ grad' = ClipGradNorm(grad, Generators)
    /\ Advance
    /\ UNCHANGED <<ctlV, netV, schedV, tens, entryParams, lastStep, evalV, runV>>

TsStepGen(m) ==
    /\ pc = (IF m = "G" THEN "ts_step_G" ELSE "ts_step_F")
    /\ OptimizerStep(m)
    /\ pc' = After(pc)
    /\ stepLog' = Append(stepLog, pc)
    /\ UNCHANGED <<ctlV, mode, schedV, grad, tens, entryParams, evalV, runV>>

TsZeroD(d) ==
    /\ pc = DPc[d].zero
    /\ grad' = ZeroGrad(grad, {d})
    /\ Advance
    /\ UNCHANGED <<ctlV, netV, schedV, tens, entryParams, lastStep, evalV, runV>>

TsLossD(d) ==
    /\ pc = DPc[d].loss
    /\ tens' = [tens EXCEPT ![DPc[d].lossName] = DiscLoss(d, tens[DPc[d].fake], params)]
    /\ Advance
    /\ UNCHANGED <<ctlV, netV, schedV, grad, entryParams, lastStep, evalV, runV>>

TsBackwardD(d) ==
    /\ pc = DPc[d].backward
    /\ grad' = Backward(grad, tens[DPc[d].lossName], DPc[d].lossName)
    /\ Advance
    /\ UNCHANGED <<ctlV, netV, schedV, tens, entryParams, lastStep, evalV, runV>>

TsClipD(d) ==
    /\ pc = DPc[d].clip
    /\ grad' = ClipGradNorm(grad, {d})
    /\ Advance
    /\ UNCHANGED <<ctlV, netV, schedV, tens, entryParams, lastStep, evalV, runV>>

TsStepD(d) ==
    /\ pc = DPc[d].step
    /\ OptimizerStep(d)
    /\ pc' = After(pc)
    /\ stepLog' = Append(stepLog, pc)
    /\ UNCHANGED <<ctlV, mode, schedV, grad, tens, entryParams, evalV, runV>>

\* return of perform_train_step to the batch loop of perform_epoch
TsReturn ==
    /\ pc = "ts_return"
    /\ batch' = batch + 1
    /\ pc' = "ep_batch"
    /\ UNCHANGED <<cfg, dataV, error, epoch, split, netV, schedV, grad, stepV, evalV, runV>>


----------------------------------------------------------------------------
\* evaluate_epoch

LossKeys ==
    {"loss_DX", "loss_DY", "loss_f_adv", "loss_g_adv", "loss_cyc", "loss_id",
     "loss_gen_total"}

MetricKeys == LossKeys \cup {"fid_val"}

\* the metrics dict evaluate_epoch starts from
ZeroMetrics == [k \in MetricKeys |-> Float(0)]

\* len(loader) of the split's loader
LoaderLen(c, s) == IF s = "val" THEN c.nVal ELSE c.nTest

KeyIdx ==
    [loss_DX |-> 1, loss_DY |-> 2, loss_f_adv |-> 3, loss_g_adv |-> 4,
     loss_cyc |-> 5, loss_id |-> 6]

\* loss.item() of batch b of split s under parameters p: the networks are
\* opaque, so a loss is some fixed function of the batch and the parameters;
\* loss_gen_total is the sum of its four terms
LossItem(k, s, b, p) ==
    LET term(j) == (KeyIdx[j] * b + p["G"] + p["F"] + p["DX"] + p["DY"]
                      + (IF s = "val" THEN 0 ELSE 1)) % 4
    IN  IF k = "loss_gen_total"
        THEN term("loss_g_adv") + term("loss_f_adv") + term("loss_cyc") + term("loss_id")
        ELSE term(k)

\* metrics[k] += loss.item() for the seven losses of batch b
Accumulate(mt, s, b, p) ==
    [k \in MetricKeys |->
        IF k \in LossKeys THEN AddInt(mt[k], LossItem(k, s, b, p)) ELSE mt[k]]

\* for k in metrics: metrics[k] /= n_batches
Average(mt, n) == [k \in MetricKeys |-> TrueDiv(mt[k], n)]

\* FrechetInceptionDistance: the images it has been fed since its last reset
EmptyFid == [real |-> <<>>, fake |-> <<>>]

\* a reset that keeps the accumulated images
FidResetKeeps(acc) == acc

\* fid_metric.reset()
FidReset(acc) == EmptyFid

\* fid_metric.update(images, real=...)
FidUpdate(acc, item, real) ==
    IF real THEN [acc EXCEPT !.real = Append(@, item)]
    ELSE [acc EXCEPT !.fake = Append(@, item)]

\* the images themselves, without the ghost number of the pass that fed them
Images(seq) == [i \in 1..Len(seq) |-> <<seq[i].split, seq[i].batch, seq[i].gver>>]

FidKey(acc) == [real |-> Images(acc.real), fake |-> Images(acc.fake)]

\* the scores the images of a run can produce
FidVals(c) == {Float(k) : k \in 1..c.fidMax} \cup {NaN}

\* fid_metric.compute(): a fixed but unknown function of the accumulated
\* images; over no image at all the library either raises or returns NaN
FidOutcomes(acc, oracle, c) ==
    LET known == {o \in oracle : o.key = FidKey(acc)}
    IN  IF known # {} THEN {[raises |-> FALSE, val |-> o.val] : o \in known}
        ELSE IF acc = EmptyFid
             THEN {[raises |-> TRUE, val |-> NaN], [raises |-> FALSE, val |-> NaN]}
             ELSE {[raises |-> FALSE, val |-> v] : v \in FidVals(c)}

\* metrics = {...}; n_batches = 0; fid_metric.reset()
EvStart ==
    /\ pc = "ev_start"
    /\ metrics' = ZeroMetrics
    /\ n_batches' = 0
    /\ fidAcc' = FidReset(fidAcc)
    /\ fidPass' = fidPass + 1
    /\ computeCalls' = 0
    /\ pc' = "ev_batch"
    /\ UNCHANGED <<ctlV, netV, schedV, grad, stepV, fidOracle, runV>>

\* one iteration of `for x, y in tqdm(loader)`, under torch.no_grad()
EvBatch ==
    /\ pc = "ev_batch"
    /\ n_batches < LoaderLen(cfg, split)
    /\ LET b == n_batches + 1
           fake_y == Forward("G", RealData, params, FALSE)
           realItem == [pass |-> fidPass, split |-> split, batch |-> b, gver |-> -1]
           fakeItem == [pass |-> fidPass, split |-> split, batch |-> b,
                        gver |-> fake_y.uses["G"]]
       IN  /\ fidAcc' = FidUpdate(FidUpdate(fidAcc, realItem, TRUE), fakeItem, FALSE)
           /\ metrics' = Accumulate(metrics, split, b, params)
           /\ n_batches' = b
    /\ UNCHANGED <<pc, ctlV, netV, schedV, grad, stepV, fidOracle, fidPass,
                   computeCalls, runV>>

\* the loader is exhausted
EvLoopEnd ==
    /\ pc = "ev_batch"
    /\ n_batches = LoaderLen(cfg, split)
    /\ pc' = "ev_compute"
    /\ UNCHANGED <<ctlV, netV, schedV, grad, stepV, evalV, runV>>

\* fid_val = fid_metric.compute(); metrics["fid_val"] = fid_val.item()
EvCompute ==
    /\ pc = "ev_compute"
    /\ computeCalls' = computeCalls + 1
    /\ \E r \in FidOutcomes(fidAcc, fidOracle, cfg) :
         IF r.raises
         THEN /\ Raise("RuntimeError")
              /\ UNCHANGED <<metrics, fidOracle>>
         ELSE /\ metrics' = [metrics EXCEPT !["fid_val"] = r.val]
              /\ fidOracle' = fidOracle \cup {[key |-> FidKey(fidAcc), val |-> r.val]}
              /\ pc' = "ev_average"
              /\ UNCHANGED error
    /\ UNCHANGED <<cfg, dataV, epoch, batch, split, netV, schedV, grad, stepV, fidAcc,
                   fidPass, n_batches, runV>>

\* the averaging loop and the return to the caller
EvAverage ==
    /\ pc = "ev_average"
    /\ IF n_batches = 0
       THEN /\ Raise("ZeroDivisionError")
            /\ UNCHANGED <<metrics, val_metrics, test_metrics, fidHist, evalHist>>
       ELSE /\ metrics' = Average(metrics, n_batches)
            /\ evalHist' = Append(evalHist, [split |-> split, params |-> params,
                                             record |-> metrics'])
            /\ UNCHANGED error
            /\ IF split = "val"
               THEN /\ val_metrics' = metrics'
                    /\ fidHist' = Append(fidHist, metrics'["fid_val"])
                    /\ pc' = "ckpt_best"
                    /\ UNCHANGED test_metrics
               ELSE /\ test_metrics' = metrics'
                    /\ pc' = "test_write"
                    /\ UNCHANGED <<val_metrics, fidHist>>
    /\ UNCHANGED <<cfg, dataV, epoch, batch, split, netV, schedV, grad, stepV, fidAcc,
                   fidOracle, fidPass, computeCalls, n_batches, best_fid, disk,
                   bestWrites, currentWrites, testFile, loaded>>

----------------------------------------------------------------------------
\* perform_epoch

\* the schedulers advanced before the training batches
EpochOrderSchedFirst == << "ep_train_mode", "ep_sched", "ep_batch", "ep_eval_mode" >>

\* the phases of perform_epoch in program order; evaluate_epoch follows
EpochOrder == << "ep_train_mode", "ep_batch", "ep_sched", "ep_eval_mode" >>

EpAfter(p) ==
    LET i == CHOOSE j \in 1..Len(EpochOrder) : EpochOrder[j] = p
    IN  IF i < Len(EpochOrder) THEN EpochOrder[i + 1] ELSE "ev_start"

\* G.train(); F.train(); DX.train(); DY.train()
EpTrainMode ==
    /\ pc = "ep_train_mode"
    /\ mode' = [m \in Models |-> "train"]
    /\ batch' = 0
    /\ pc' = EpAfter(pc)
    /\ UNCHANGED <<cfg, dataV, error, epoch, split, params, optState, schedV, grad,
                   stepV, evalV, runV>>

\* one more batch of train_loader: call perform_train_step
EpBatch ==
    /\ pc = "ep_batch"
    /\ batch < cfg.nTrain
    /\ pc' = TrainStepOrder[1]
    /\ tens' = NoTensors
    /\ entryParams' = params
    /\ stepLog' = <<>>
    /\ lastStep' = [m \in Models |-> NoStep]
    /\ UNCHANGED <<ctlV, netV, schedV, grad, evalV, runV>>

\* train_loader is exhausted
EpLoopEnd ==
    /\ pc = "ep_batch"
    /\ batch = cfg.nTrain
    /\ pc' = EpAfter(pc)
    /\ UNCHANGED <<ctlV, netV, schedV, grad, stepV, evalV, runV>>

\* sched_G.step(); sched_F.step(); sched_DX.step(); sched_DY.step()
EpSched ==
    /\ pc = "ep_sched"
    /\ sched' = [m \in Models |-> sched[m] + 1]
    /\ lr' = [m \in Models |-> LrLambda(cfg.N, sched[m] + 1)]
    /\ pc' = EpAfter(pc)
    /\ UNCHANGED <<ctlV, netV, grad, stepV, evalV, runV>>

\* G.eval(); F.eval(); DX.eval(); DY.eval(); call evaluate_epoch on val_loader
EpEvalMode ==
    /\ pc = "ep_eval_mode"
    /\ mode' = [m \in Models |-> "eval"]
    /\ split' = "val"
    /\ pc' = EpAfter(pc)
    /\ UNCHANGED <<cfg, dataV, error, epoch, batch, params, optState, schedV, grad,
                   stepV, evalV, runV>>


----------------------------------------------------------------------------
\* make_unpaired_loader and prepare_dataset (data.py)

\* defaults of make_unpaired_loader and prepare_dataset
YoungMax == 28

OldMin == 40

Seed == 42

TrainBatchSize == 4

EvalBatchSize == 8

\* the split names make_unpaired_loader accepts
SplitNames == {"train", "valid", "test"}

\* the ages that the sorted file names of a dataset carry repeat one of
\* these layouts
AgePatterns ==
    << <<18, 40>>, <<18, 28, 40>>, <<28, 17, 40>>, <<40, 39, 28, 29>>,
       <<29, 17>>, <<18, 28>> >>

\* full_ds.files of a dataset of n files of layout p, as the age of each file
DatasetFiles(p, n) ==
    [i \in 1..n |-> AgePatterns[p][((i - 1) % Len(AgePatterns[p])) + 1]]

\* list(range(n)): file indices count from 0
Indices(n) == [i \in 1..n |-> i - 1]

IsYoung(age) == age <= YoungMax /\ age >= 18

\* elif age >= old_min
IsOld(age) == ~IsYoung(age) /\ age >= OldMin

YoungIdx(fs) == SelectSeq(Indices(Len(fs)), LAMBDA i : IsYoung(fs[i + 1]))

OldIdx(fs) == SelectSeq(Indices(Len(fs)), LAMBDA i : IsOld(fs[i + 1]))

\* a generator: its seed and the sizes of the draws made from it since
NoGenerator == [seed |-> -1, drawn |-> <<>>]

\* a generator that is carried over from the previous call
GeneratorKept(seed, g) == IF g = NoGenerator THEN [seed |-> seed, drawn |-> <<>>] ELSE g

\* torch.Generator().manual_seed(seed): a new generator, whatever the
\* generator g of an earlier call was left at
ManualSeed(seed, g) == [seed |-> seed, drawn |-> <<>>]

Drawn(g, n) == [g EXCEPT !.drawn = Append(@, n)]

\* the permutations of 0..n-1 a draw may return: the rotations and the
\* reversed rotations (all the permutations for n <= 3)
PermFamily(n) ==
    {[i \in 1..n |-> (i - 1 + k) % n] : k \in 0..(n - 1)}
        \cup {[i \in 1..n |-> (n - 1) - ((i - 1 + k) % n)] : k \in 0..(n - 1)}

\* torch.randperm(n, generator=g): a fixed but unknown function of the
\* state of the generator (its seed and the draws made from it) and of n
Randperm(g, n, oracle) ==
    LET known == {o \in oracle : o.seed = g.seed /\ o.drawn = g.drawn /\ o.n = n}
    IN  IF known # {} THEN {o.perm : o \in known} ELSE PermFamily(n)

Remember(oracle, g, n, perm) ==
    oracle \cup {[seed |-> g.seed, drawn |-> g.drawn, n |-> n, perm |-> perm]}

\* split_indices(idxs) with the permutation that randperm returned;
\* int(0.8 * n) and int(0.9 * n) are the floors of 8n/10 and 9n/10
SplitIndices(idxs, perm) ==
    LET n == Len(idxs)
        shuffled == [i \in 1..n |-> idxs[perm[i] + 1]]
        train == (8 * n) \div 10
        valid == (9 * n) \div 10
    IN  [train |-> SubSeq(shuffled, 1, train),
         valid |-> SubSeq(shuffled, train + 1, valid),
         test |-> SubSeq(shuffled, valid + 1, n)]

MinOf(a, b) == IF a <= b THEN a ELSE b

\* Unpaired.__len__
UnpairedLen(a, b) == MaxOf(Len(a), Len(b))

\* len(DataLoader(paired, batch_size, drop_last=(split == "train")))
NumBatches(n, s) ==
    IF s = "train" THEN n \div TrainBatchSize
    ELSE (n + EvalBatchSize - 1) \div EvalBatchSize

\* DataLoader(..., shuffle=True) builds a RandomSampler, which rejects a
\* dataset of length 0
SamplerRaises(n, s) == s = "train" /\ n = 0

NoLoader ==
    [built |-> FALSE, part_y |-> <<>>, part_o |-> <<>>, len_y |-> 0, len_o |-> 0,
     length |-> 0, batches |-> 0]

\* the call that follows the call for split s in prepare_dataset
NextSplit(s) ==
    IF s = "train" THEN "valid" ELSE IF s = "valid" THEN "test" ELSE "done"

DataRaise(name) ==
    /\ dataPc' = "crashed"
    /\ dataError' = name
    /\ UNCHANGED <<rng, randOracle, loaders>>

\* make_unpaired_loader(root, split = s, ...), called by prepare_dataset for
\* train, valid and test in this order
MakeUnpairedLoader(s) ==
    /\ dataPc = s
    /\ LET g0 == ManualSeed(Seed, rng)
           young_idx == YoungIdx(files)
           old_idx == OldIdx(files)
           g1 == Drawn(g0, Len(young_idx))
           g2 == Drawn(g1, Len(old_idx))
       IN  IF Len(files) = 0 THEN DataRaise("FileNotFoundError")
           ELSE IF young_idx = <<>> \/ old_idx = <<>> THEN DataRaise("ValueError")
           ELSE \E perm_y \in Randperm(g0, Len(young_idx), randOracle) :
                  LET oracle1 == Remember(randOracle, g0, Len(young_idx), perm_y)
                  IN  \E perm_o \in Randperm(g1, Len(old_idx), oracle1) :
                        LET part_y == SplitIndices(young_idx, perm_y)[s]
                            part_o == SplitIndices(old_idx, perm_o)[s]
                            limit == MinOf(Len(part_y), Len(part_o))
                            young_ds == SubSeq(part_y, 1, limit)
                            old_ds == SubSeq(part_o, 1, limit)
                        IN  /\ rng' = g2
                            /\ randOracle' = Remember(oracle1, g1, Len(old_idx), perm_o)
                            /\ IF SamplerRaises(UnpairedLen(young_ds, old_ds), s)
                               THEN /\ dataPc' = "crashed"
                                    /\ dataError' = "ValueError"
                                    /\ UNCHANGED loaders
                               ELSE /\ loaders' =
                                         [loaders EXCEPT ![s] =
                                            [built |-> TRUE,
                                             part_y |-> young_ds, part_o |-> old_ds,
                                             len_y |-> Len(part_y), len_o |-> Len(part_o),
                                             length |-> UnpairedLen(young_ds, old_ds),
                                             batches |->
                                                NumBatches(UnpairedLen(young_ds, old_ds), s)]]
                                    /\ dataPc' = NextSplit(s)
                                    /\ UNCHANGED dataError
    /\ UNCHANGED <<files, trainV>>

\* the data preparation of a run whose loaders are given by their lengths
DataIdle ==
    /\ files = <<>>
    /\ rng = NoGenerator
    /\ randOracle = {}
    /\ loaders = [s \in SplitNames |-> NoLoader]
    /\ dataPc = "done"
    /\ dataError = "none"

----------------------------------------------------------------------------
\* main

NoFile ==
    [exists |-> FALSE, epoch |-> 0, params |-> NoUse, optState |-> NoUse,
     sched |-> NoUse, stale |-> FALSE]

\* a best.pth that an earlier run left in outputs/checkpoints
StaleCkpt ==
    [exists |-> TRUE, epoch |-> 0, params |-> NoUse, optState |-> NoUse,
     sched |-> NoUse, stale |-> TRUE]

\* save_checkpoint(epoch, G, F, DX, DY, opt_*, sched_*, name): a total
\* overwrite of <name>.pth with the models', optimizers' and schedulers' state
SaveCheckpoint(d, name, e, p, o, sc) ==
    [d EXCEPT ![name] = [exists |-> TRUE, epoch |-> e, params |-> p,
                         optState |-> o, sched |-> sc, stale |-> FALSE]]

\* the comparison written with <= : an equal FID overwrites
BestImprovedOrEqual(fid, best) == Le(fid, best)

\* val_metrics["val/fid_val"] < best_fid
BestImproved(fid, best) == Lt(fid, best)

\* the test written without its comparison: `if epoch % 5:`
IsCurrentEpochTruthy(e) == e % 5 # 0

\* epoch % 5 == 0
IsCurrentEpoch(e) == e % 5 = 0

\* the state main is in once the models and the optimizers are built
InitWith(c, d) ==
    /\ cfg = c
    /\ pc = "make_schedulers"
    /\ error = "none"
    /\ epoch = 0
    /\ batch = 0
    /\ split = "val"
    /\ params = [m \in Models |-> 0]
    /\ optState = [m \in Models |-> 0]
    /\ grad = [m \in Models |-> NoGrad]
    /\ mode = [m \in Models |-> "train"]
    /\ sched = NoUse
    /\ lr = [m \in Models |-> Float(1)]
    /\ tens = NoTensors
    /\ entryParams = [m \in Models |-> 0]
    /\ stepLog = <<>>
    /\ lastStep = [m \in Models |-> NoStep]
    /\ fidAcc = EmptyFid
    /\ fidOracle = {}
    /\ fidPass = 0
    /\ computeCalls = 0
    /\ metrics = ZeroMetrics
    /\ n_batches = 0
    /\ val_metrics = ZeroMetrics
    /\ best_fid = Inf
    /\ disk = [best |-> d, current |-> NoFile]
    /\ fidHist = <<>>
    /\ bestWrites = {}
    /\ currentWrites = {}
    /\ test_metrics = ZeroMetrics
    /\ testFile = FALSE
    /\ loaded = NoFile
    /\ evalHist = <<>>
    /\ DataIdle

\* runs that vary the loader lengths; a run that skips the test phase never
\* reads its test loader, which is then left empty
StepConfigs ==
    {c \in [N : 0..StepEpochs, nTrain : 0..MaxTrainBatches,
            nVal : 0..MaxValBatches, nTest : 0..MaxTestBatches,
            do_test : BOOLEAN, fidMax : {MaxFid}] : ~c.do_test => c.nTest = 0}

\* runs that vary the epoch count, one batch per loader; only the short
\* ones enter the test phase, and the longest ones draw from fewer scores
RunConfigs ==
    {c \in [N : 0..MaxEpochs, nTrain : {1}, nVal : {1}, nTest : {1},
            do_test : BOOLEAN, fidMax : {LongRunFid, MaxFid}] :
        /\ c.do_test => c.N <= StepEpochs
        /\ c.N > ExampleEpochs => c.fidMax = LongRunFid
        /\ c.N <= ExampleEpochs => c.fidMax = MaxFid}

\* outputs/checkpoints is empty or holds the best.pth of an earlier run
Init ==
    \E c \in StepConfigs \cup RunConfigs, d \in {NoFile, StaleCkpt} :
        (~c.do_test => d = NoFile) /\ InitWith(c, d)

\* sched_* = LambdaLR(opt_*, _lr_lambda); fid_metric = FrechetInceptionDistance(...);
\* best_fid = float("inf")
MakeSchedulers ==
    /\ pc = "make_schedulers"
    /\ IF SchedulerInitRaises(cfg.N)
       THEN /\ Raise("ZeroDivisionError")
            /\ UNCHANGED <<sched, lr>>
       ELSE /\ sched' = [m \in Models |-> 0]
            /\ lr' = [m \in Models |-> LrLambda(cfg.N, 0)]
            /\ pc' = "loop_head"
            /\ UNCHANGED error
    /\ fidAcc' = EmptyFid
    /\ best_fid' = Inf
    /\ UNCHANGED <<cfg, dataV, epoch, batch, split, netV, grad, stepV, fidOracle, fidPass,
                   computeCalls, metrics, n_batches, val_metrics, disk, fidHist,
                   bestWrites, currentWrites, test_metrics, testFile, loaded, evalHist>>

\* for epoch in range(1, cfg.num_train_epochs + 1): call perform_epoch
LoopHead ==
    /\ pc = "loop_head"
    /\ epoch < cfg.N
    /\ epoch' = epoch + 1
    /\ pc' = EpochOrder[1]
    /\ UNCHANGED <<cfg, dataV, error, batch, split, netV, schedV, grad, stepV, evalV, runV>>

\* the epoch loop is over
LoopEnd ==
    /\ pc = "loop_head"
    /\ epoch >= cfg.N
    /\ pc' = "test_gate"
    /\ UNCHANGED <<ctlV, netV, schedV, grad, stepV, evalV, runV>>

\* if val_metrics["val/fid_val"] < best_fid: best_fid = ...; save_checkpoint(..., "best")
CkptBest ==
    /\ pc = "ckpt_best"
    /\ IF BestImproved(val_metrics["fid_val"], best_fid)
       THEN /\ best_fid' = val_metrics["fid_val"]
            /\ disk' = SaveCheckpoint(disk, "best", epoch, params, optState, sched)
            /\ bestWrites' = bestWrites \cup {epoch}
       ELSE UNCHANGED <<best_fid, disk, bestWrites>>
    /\ pc' = "ckpt_current"
    /\ UNCHANGED <<ctlV, netV, schedV, grad, stepV, evalV, val_metrics, fidHist,
                   currentWrites, test_metrics, testFile, loaded, evalHist>>

\* if epoch % 5 == 0: save_checkpoint(..., "current")
CkptCurrent ==
    /\ pc = "ckpt_current"
    /\ IF IsCurrentEpoch(epoch)
       THEN /\ disk' = SaveCheckpoint(disk, "current", epoch, params, optState, sched)
            /\ currentWrites' = currentWrites \cup {epoch}
       ELSE UNCHANGED <<disk, currentWrites>>
    /\ pc' = "loop_head"
    /\ UNCHANGED <<ctlV, netV, schedV, grad, stepV, evalV, val_metrics, best_fid,
                   fidHist, bestWrites, test_metrics, testFile, loaded, evalHist>>

\* if cfg.do_test: ... else: "Skipping test evaluation..."
TestGate ==
    /\ pc = "test_gate"
    /\ pc' = (IF cfg.do_test THEN "test_load" ELSE "done")
    /\ UNCHANGED <<ctlV, netV, schedV, grad, stepV, evalV, runV>>

\* a reload that leaves the models as training left them
LoadStateDictSkipped(p, ckpt) == p

\* accelerator.unwrap_model(m).load_state_dict(best_ckpt[m]) for the four
\* models: the parameters become those of the checkpoint
LoadStateDict(p, ckpt) == ckpt.params

\* best_ckpt = torch.load(best.pth); load_state_dict of the four models
TestLoad ==
    /\ pc = "test_load"
    /\ IF ~disk.best.exists
       THEN /\ Raise("FileNotFoundError")
            /\ UNCHANGED <<params, loaded>>
       ELSE /\ params' = LoadStateDict(params, disk.best)
            /\ loaded' = disk.best
            /\ pc' = "test_eval_mode"
            /\ UNCHANGED error
    /\ UNCHANGED <<cfg, dataV, epoch, batch, split, optState, mode, schedV, grad, stepV,
                   evalV, val_metrics, best_fid, disk, fidHist, bestWrites,
                   currentWrites, test_metrics, testFile, evalHist>>

\* G.eval(); F.eval(); DX.eval(); DY.eval(); call evaluate_epoch on test_loader
TestEvalMode ==
    /\ pc = "test_eval_mode"
    /\ mode' = [m \in Models |-> "eval"]
    /\ split' = "test"
    /\ pc' = "ev_start"
    /\ UNCHANGED <<cfg, dataV, error, epoch, batch, params, optState, schedV, grad,
                   stepV, evalV, runV>>

\* json.dump(test_metrics, test_metrics.json)
TestWrite ==
    /\ pc = "test_write"
    /\ testFile' = TRUE
    /\ pc' = "done"
    /\ UNCHANGED <<ctlV, netV, schedV, grad, stepV, evalV, val_metrics, best_fid,
                   disk, fidHist, bestWrites, currentWrites, test_metrics, loaded,
                   evalHist>>

Next ==
    \/ MakeSchedulers \/ LoopHead \/ LoopEnd
    \/ EpTrainMode \/ EpBatch \/ EpLoopEnd \/ EpSched \/ EpEvalMode
    \/ TsZeroGen \/ TsForward \/ TsGenLoss \/ TsGenBackward \/ TsGenClip
    \/ \E m \in Generators : TsStepGen(m)
    \/ \E d \in Discriminators :
         TsZeroD(d) \/ TsLossD(d) \/ TsBackwardD(d) \/ TsClipD(d) \/ TsStepD(d)
    \/ TsReturn
    \/ EvStart \/ EvBatch \/ EvLoopEnd \/ EvCompute \/ EvAverage
    \/ CkptBest \/ CkptCurrent
    \/ TestGate \/ TestLoad \/ TestEvalMode \/ TestWrite

Spec == Init /\ [][Next]_vars

----------------------------------------------------------------------------
\* prepare_dataset on its own: the three calls of make_unpaired_loader on a
\* dataset of up to MaxFiles files, before any training state exists

DataInit ==
    /\ \E p \in 1..Len(AgePatterns), n \in 0..MaxFiles : files = DatasetFiles(p, n)
    /\ rng = NoGenerator
    /\ randOracle = {}
    /\ loaders = [s \in SplitNames |-> NoLoader]
    /\ dataPc = "train"
    /\ dataError = "none"
    /\ cfg = [N |-> 1, nTrain |-> 0, nVal |-> 0, nTest |-> 0, do_test |-> FALSE,
              fidMax |-> MaxFid]
    /\ pc = "make_schedulers"
    /\ error = "none"
    /\ epoch = 0
    /\ batch = 0
    /\ split = "val"
    /\ params = [m \in Models |-> 0]
    /\ optState = [m \in Models |-> 0]
    /\ grad = [m \in Models |-> NoGrad]
    /\ mode = [m \in Models |-> "train"]
    /\ sched = NoUse
    /\ lr = [m \in Models |-> Float(1)]
    /\ tens = NoTensors
    /\ entryParams = [m \in Models |-> 0]
    /\ stepLog = <<>>
    /\ lastStep = [m \in Models |-> NoStep]
    /\ fidAcc = EmptyFid
    /\ fidOracle = {}
    /\ fidPass = 0
    /\ computeCalls = 0
    /\ metrics = ZeroMetrics
    /\ n_batches = 0
    /\ val_metrics = ZeroMetrics
    /\ best_fid = Inf
    /\ disk = [best |-> NoFile, current |-> NoFile]
    /\ fidHist = <<>>
    /\ bestWrites = {}
    /\ currentWrites = {}
    /\ test_metrics = ZeroMetrics
    /\ testFile = FALSE
    /\ loaded = NoFile
    /\ evalHist = <<>>

PrepareDataset == \E s \in SplitNames : MakeUnpairedLoader(s)

DataSpec == DataInit /\ [][PrepareDataset]_vars



----------------------------------------------------------------------------
\* Positions of a run.

TestPhasePcs == {"test_gate", "test_load", "test_eval_mode", "test_write", "done"}

\* the epoch loop of main is over (a pass over the test split, or a failure
\* in it, comes after the loop)
LoopOver == pc \in TestPhasePcs \/ split = "test"

\* epoch e has gone through the whole body of the loop
Completed(e) ==
    /\ e \in 1..epoch
    /\ e < epoch \/ pc = "loop_head" \/ LoopOver

\* the FID comparison of epoch e has been made
BestDecided(e) == Completed(e) \/ (e = epoch /\ pc = "ckpt_current")

FiniteEpochs == {e \in 1..Len(fidHist) : IsFinite(fidHist[e])}

\* the earliest epoch whose FID is the minimum of the finite FIDs
EarliestMin ==
    CHOOSE e \in FiniteEpochs :
        /\ \A j \in FiniteEpochs : Le(fidHist[e], fidHist[j])
        /\ \A j \in FiniteEpochs : j < e => Lt(fidHist[e], fidHist[j])

ExampleFids == << Float(5), Float(3), Float(4), Float(2) >>

----------------------------------------------------------------------------
\* C1 as stated: the best checkpoint is written at epoch e exactly when the
\* FID of epoch e is strictly lower than the FID of every earlier epoch.
C1_Original ==
    \A e \in 1..Len(fidHist) :
        BestDecided(e) =>
            ((e \in bestWrites) <=> (\A j \in 1..(e - 1) : Lt(fidHist[e], fidHist[j])))

\* C1 amended: the best checkpoint is written at epoch e exactly when the FID
\* of epoch e is finite and strictly lower than every finite FID of an
\* earlier epoch (equal values do not overwrite); at the end of the loop the
\* best checkpoint stores the earliest epoch that attains the minimum of the
\* finite FIDs; for the FIDs 5, 3, 4, 2 it is written at epochs 1, 2 and 4
\* and stores epoch 4.
C1_BestTracking ==
    /\ \A e \in 1..Len(fidHist) :
          BestDecided(e) =>
              ((e \in bestWrites) <=>
                  /\ IsFinite(fidHist[e])
                  /\ \A j \in 1..(e - 1) :
                        IsFinite(fidHist[j]) => Lt(fidHist[e], fidHist[j]))
    /\ (LoopOver /\ FiniteEpochs # {}) =>
          /\ disk.best.exists /\ ~disk.best.stale
          /\ disk.best.epoch = EarliestMin
    /\ (LoopOver /\ fidHist = ExampleFids) =>
          bestWrites = {1, 2, 4} /\ disk.best.epoch = 4

C1_Witness ==
    /\ pc = "done"
    /\ fidHist = ExampleFids
    /\ bestWrites = {1, 2, 4}
    /\ disk.best.epoch = 4

\* a run in which an equal FID and a NaN FID were both passed over
C1_WitnessEqual ==
    /\ LoopOver
    /\ \E e \in 2..Len(fidHist) : Eq(fidHist[e], fidHist[1]) /\ e \notin bestWrites

----------------------------------------------------------------------------
\* C2: every call of perform_train_step runs its statements in the fixed
\* order (generators: zero, forward, loss, backward, clip, step G, step F;
\* then DX: zero, loss, backward, clip, step; then DY likewise); the generator
\* loss is computed with the DX and DY parameters the call started with;
\* every optimizer step applies a gradient that was backpropagated from its
\* own loss and clipped in the same call.
C2_Phases ==
    << "ts_zero_gen", "ts_forward", "ts_gen_loss", "ts_gen_backward",
       "ts_gen_clip", "ts_step_G", "ts_step_F",
       "ts_zero_DX", "ts_loss_DX", "ts_backward_DX", "ts_clip_DX", "ts_step_DX",
       "ts_zero_DY", "ts_loss_DY", "ts_backward_DY", "ts_clip_DY", "ts_step_DY" >>

C2_OwnLoss ==
    [G |-> "loss_gen_total", F |-> "loss_gen_total", DX |-> "loss_DX", DY |-> "loss_DY"]

C2_PhaseOrder ==
    /\ Len(stepLog) <= Len(C2_Phases)
    /\ \A i \in 1..Len(stepLog) : stepLog[i] = C2_Phases[i]
    /\ \A m \in Models :
          lastStep[m].fired =>
              lastStep[m].clipped /\ C2_OwnLoss[m] \in lastStep[m].src
    /\ pc = "ts_return" =>
          /\ stepLog = C2_Phases
          /\ \A m \in Models : lastStep[m].fired
          /\ \A d \in Discriminators :
                tens.loss_gen_total.uses[d] = entryParams[d]

\* the second call of the second epoch returns, all four networks updated
C2_Witness ==
    /\ pc = "ts_return"
    /\ epoch = 2
    /\ batch = 1
    /\ stepLog = C2_Phases
    /\ \A m \in Models : params[m] = entryParams[m] + 1

----------------------------------------------------------------------------
\* C3: no step of the discriminator phase of perform_train_step (the DX
\* update followed by the DY update) changes a parameter of G or F or adds
\* to their gradients: the generator parameters after the generator steps
\* are those the call returns with.
C3_DiscPcs ==
    {"ts_zero_DX", "ts_loss_DX", "ts_backward_DX", "ts_clip_DX", "ts_step_DX",
     "ts_zero_DY", "ts_loss_DY", "ts_backward_DY", "ts_clip_DY", "ts_step_DY"}

C3_DiscPhaseFrame ==
    [][(pc \in C3_DiscPcs) =>
         (\A m \in Generators : params'[m] = params[m] /\ grad'[m] = grad[m])
      ]_vars

\* a call returns with both discriminators updated and the generators as
\* their own steps left them
C3_Witness ==
    /\ pc = "ts_return"
    /\ \A m \in Models : params[m] = entryParams[m] + 1
    /\ \A m \in Generators : grad[m].src = {"loss_gen_total"}

----------------------------------------------------------------------------
\* C4: a current checkpoint is written at epoch e exactly when e is a
\* multiple of 5, whatever the FID comparison gave; a run of 2 epochs with
\* finite validation FIDs that starts from an empty checkpoint directory ends
\* with a best checkpoint of its own and no current checkpoint.
C4_CurrentEveryFifth ==
    /\ \A e \in 1..epoch :
          Completed(e) => ((e \in currentWrites) <=> (e % 5 = 0))
    /\ (LoopOver /\ cfg.N = 2 /\ Len(fidHist) = 2 /\ FiniteEpochs = {1, 2}) =>
          /\ bestWrites # {}
          /\ disk.best.exists /\ ~disk.best.stale
          /\ currentWrites = {}
          /\ ~disk.current.exists

\* a fifth epoch wrote current although its FID did not improve
C4_Witness ==
    /\ pc = "done"
    /\ 5 \in currentWrites
    /\ 5 \notin bestWrites
    /\ disk.current.exists /\ disk.current.epoch = 5

\* the run of 2 epochs
C4_WitnessTwoEpochs ==
    /\ pc = "done"
    /\ cfg.N = 2
    /\ FiniteEpochs = {1, 2}
    /\ disk.best.exists /\ ~disk.current.exists

----------------------------------------------------------------------------
\* C5 as stated: with testing enabled and no best checkpoint written by this
\* run, main never gets past the load of the checkpoint: no test pass runs
\* and no test metrics are written.
C5_FailFast ==
    (cfg.do_test /\ bestWrites = {}) =>
        /\ pc \notin {"test_eval_mode", "test_write", "done"}
        /\ split # "test"
        /\ ~testFile
        /\ ~loaded.exists

\* the run that does fail fast: no best.pth on disk at all
C5_WitnessAbort ==
    /\ pc = "crashed" /\ error = "FileNotFoundError"
    /\ cfg.do_test /\ bestWrites = {} /\ epoch >= 1


----------------------------------------------------------------------------
\* What evaluate_epoch is expected to return.

EvalPcs == {"ev_start", "ev_batch", "ev_compute", "ev_average"}

\* evaluate_epoch has just returned its record to the caller
EvalReturned == pc \in {"ckpt_best", "test_write"}

ReturnedRecord == IF pc = "ckpt_best" THEN val_metrics ELSE test_metrics

RECURSIVE SumLoss(_, _, _, _)
\* the sum of loss k over the batches 1..n of split s
SumLoss(k, s, n, p) ==
    IF n = 0 THEN 0 ELSE SumLoss(k, s, n - 1, p) + LossItem(k, s, n, p)

\* the score the compute call of this pass returned
ComputedFid == (CHOOSE o \in fidOracle : o.key = FidKey(fidAcc)).val

SameFloat(a, b) == (a.kind = "nan" /\ b.kind = "nan") \/ Eq(a, b)

\* the seven losses of the returned record are per-batch averages
LossesAveraged ==
    EvalReturned =>
        \A k \in LossKeys :
            Eq(ReturnedRecord[k],
               [kind |-> "num", num |-> SumLoss(k, split, n_batches, params),
                den |-> n_batches])

----------------------------------------------------------------------------
\* C6 as stated: evaluate_epoch checks the batch count before it averages, so
\* the averaging step is never entered with a batch count of zero.
C6_BatchCountValidated == ~(pc = "ev_average" /\ n_batches = 0)

----------------------------------------------------------------------------
\* C7 as stated: the record evaluate_epoch returns holds, for each of the
\* seven losses, the sum over the batches divided by the batch count and, for
\* the FID key, the score that the compute call returned.
C7_ReturnedRecord ==
    /\ LossesAveraged
    /\ EvalReturned => SameFloat(ReturnedRecord["fid_val"], ComputedFid)

----------------------------------------------------------------------------
\* C8: in every evaluation pass the accumulator, shared by all passes, holds
\* exactly one real and one generated update per batch of this pass and
\* nothing of an earlier pass; compute is not called while batches are fed
\* and is called exactly once, after the last batch.
AccIsThisPass ==
    /\ Len(fidAcc.real) = n_batches
    /\ Len(fidAcc.fake) = n_batches
    /\ \A i \in 1..n_batches :
          /\ fidAcc.real[i] = [pass |-> fidPass, split |-> split, batch |-> i,
                               gver |-> -1]
          /\ fidAcc.fake[i] = [pass |-> fidPass, split |-> split, batch |-> i,
                               gver |-> params["G"]]

C8_FidProtocol ==
    /\ computeCalls <= 1
    /\ pc \in {"ev_batch", "ev_compute"} => computeCalls = 0 /\ AccIsThisPass
    /\ pc = "ev_average" =>
          /\ computeCalls = 1
          /\ n_batches = LoaderLen(cfg, split)
          /\ AccIsThisPass
    /\ EvalReturned => computeCalls = 1 /\ AccIsThisPass

\* the test pass, after two validation passes of two batches each
C8_Witness ==
    /\ pc = "ev_average"
    /\ split = "test"
    /\ fidPass = 3
    /\ cfg.nVal = 2
    /\ n_batches = 1

----------------------------------------------------------------------------
\* C9: for N >= 1 and every epoch index e in 1..N the multiplier is exactly
\* 1.0 while e < N // 2, is not above the multiplier of e - 1, is never
\* negative and is exactly 0.0 at e = N; the four schedulers all hold the
\* value of this one function at their own counter.
C9_Schedule ==
    /\ cfg.N >= 1 =>
          \A e \in 1..cfg.N :
              /\ e < cfg.N \div 2 => LrLambda(cfg.N, e) = Float(1)
              /\ Le(LrLambda(cfg.N, e), LrLambda(cfg.N, e - 1))
              /\ ~Lt(LrLambda(cfg.N, e), Float(0))
              /\ e = cfg.N => LrLambda(cfg.N, e).num = 0
    /\ \A m \in Models : sched[m] >= 0 => lr[m] = LrLambda(cfg.N, sched[m])

\* a run of five epochs: the schedulers were past the constant half at 1.0
\* and have reached 0.0
C9_Witness ==
    /\ pc = "done"
    /\ cfg.N = 5
    /\ LrLambda(cfg.N, 1) = Float(1)
    /\ Lt(LrLambda(cfg.N, 4), LrLambda(cfg.N, 3))
    /\ \A m \in Models : sched[m] = 5 /\ Eq(lr[m], Float(0))

----------------------------------------------------------------------------
\* C10: in perform_epoch every optimizer step comes before the scheduler
\* advancement and runs in training mode; the four schedulers are advanced
\* once, after the last batch; the validation pass starts after that, runs in
\* evaluation mode, and no optimizer step or scheduler advancement happens
\* during it.
C10_TrainingPcs ==
    {"ep_batch", "ts_return", "ts_zero_gen", "ts_forward", "ts_gen_loss",
     "ts_gen_backward", "ts_gen_clip", "ts_step_G", "ts_step_F",
     "ts_zero_DX", "ts_loss_DX", "ts_backward_DX", "ts_clip_DX", "ts_step_DX",
     "ts_zero_DY", "ts_loss_DY", "ts_backward_DY", "ts_clip_DY", "ts_step_DY"}

C10_OptStepPcs == {"ts_step_G", "ts_step_F", "ts_step_DX", "ts_step_DY"}

C10_InValidation == pc \in EvalPcs /\ split = "val"

C10_EpochPhases ==
    /\ [](/\ pc \in C10_TrainingPcs =>
               \A m \in Models : mode[m] = "train" /\ sched[m] = epoch - 1
          /\ C10_InValidation =>
               \A m \in Models : mode[m] = "eval" /\ sched[m] = epoch)
    /\ [][/\ (params' # params /\ pc # "test_load") =>
                /\ pc \in C10_OptStepPcs
                /\ \A m \in Models : mode[m] = "train" /\ sched[m] = epoch - 1
          /\ (sched' # sched /\ pc # "make_schedulers") =>
                /\ pc = "ep_sched" /\ batch = cfg.nTrain
                /\ \A m \in Models : sched'[m] = sched[m] + 1
                /\ pc' = "ep_eval_mode"
          /\ C10_InValidation =>
                /\ params' = params /\ optState' = optState
                /\ sched' = sched /\ mode' = mode
       ]_vars

\* the validation pass of the second epoch, after two batches per epoch
C10_Witness ==
    /\ pc = "ev_average"
    /\ split = "val"
    /\ epoch = 2
    /\ cfg.nTrain = 2
    /\ \A m \in Models : params[m] = 4 /\ sched[m] = 2 /\ mode[m] = "eval"

----------------------------------------------------------------------------
\* C11: no step of evaluate_epoch changes a model parameter, an optimizer
\* state, a scheduler counter or a learning rate, and any two passes of a
\* run over the same split with the same model parameters (no training in
\* between) return the same record, key by key, whatever the accumulator
\* held when the later pass started.
C11_SameRecord(a, b) == \A k \in MetricKeys : SameFloat(a[k], b[k])

C11_EvalIdempotent ==
    /\ [](\A i \in 1..Len(evalHist), j \in 1..Len(evalHist) :
             (evalHist[i].split = evalHist[j].split
                 /\ evalHist[i].params = evalHist[j].params) =>
                 C11_SameRecord(evalHist[i].record, evalHist[j].record))
    /\ [][(pc \in EvalPcs) =>
             /\ params' = params /\ optState' = optState
             /\ sched' = sched /\ lr' = lr
          ]_vars

\* the validation pass of epoch 2 of a run with an empty training loader has
\* returned: it ran on the models of the pass of epoch 1, on two batches,
\* and got the same finite FID
C11_Witness ==
    /\ pc = "ckpt_best"
    /\ epoch = 2
    /\ cfg.nVal = 2
    /\ Len(evalHist) = 2
    /\ evalHist[1].split = evalHist[2].split
    /\ evalHist[1].params = evalHist[2].params
    /\ IsFinite(evalHist[2].record["fid_val"])
    /\ evalHist[1].record = evalHist[2].record

----------------------------------------------------------------------------
\* C12: when testing is enabled and this run wrote a best checkpoint, the
\* test pass runs with the four models holding the parameters stored in the
\* best checkpoint, which are those of the earliest epoch with the lowest
\* finite validation FID, also when a later epoch trained further; the
\* reload changes no optimizer state, scheduler counter or learning rate, so
\* the schedulers stay at the end of the run; the test metrics file is
\* written in one step, after the test pass has returned its record, and no
\* step follows it.
C12_InTestPass == split = "test" /\ pc \in EvalPcs \cup {"test_write", "done"}

C12_LastPass == evalHist[Len(evalHist)]

C12_TestOnBest ==
    /\ []((C12_InTestPass /\ bestWrites # {}) =>
             /\ loaded = disk.best /\ ~loaded.stale
             /\ disk.best.epoch = EarliestMin
             /\ params = disk.best.params
             /\ params = evalHist[disk.best.epoch].params
             /\ \A m \in Models : sched[m] = cfg.N)
    /\ []((testFile /\ bestWrites # {}) =>
             /\ pc = "done"
             /\ C12_LastPass.split = "test"
             /\ C12_LastPass.params = disk.best.params
             /\ test_metrics = C12_LastPass.record)
    /\ [][/\ pc = "test_load" =>
                optState' = optState /\ sched' = sched /\ lr' = lr
          /\ testFile' => (pc = "test_write" /\ ~testFile /\ pc' = "done")
       ]_vars

\* the test metrics of a run of two epochs whose first epoch had the lower
\* FID: the models hold the parameters of epoch 1, not the further trained
\* ones of epoch 2, and the optimizers and schedulers are those of epoch 2
C12_Witness ==
    /\ pc = "done" /\ testFile
    /\ cfg.N = 2 /\ cfg.nTrain = 2
    /\ bestWrites = {1}
    /\ params = evalHist[1].params
    /\ params # evalHist[2].params
    /\ \A m \in Models :
          /\ optState[m] # disk.best.optState[m]
          /\ sched[m] = 2 /\ disk.best.sched[m] = 1

----------------------------------------------------------------------------
\* C13: the gradient a discriminator's optimizer step applies comes from
\* that discriminator's own loss and from nothing else.  The backward pass
\* of the generator loss does leave a gradient on DX and DY, which is still
\* there when the discriminator's zero_grad is reached; zero_grad clears it,
\* so the discriminator's loss is backpropagated onto an empty gradient; and
\* no step of DX's update changes the gradient or the parameters of DY.
C13_OwnLoss == [DX |-> "loss_DX", DY |-> "loss_DY"]

C13_DXPcs ==
    {"ts_zero_DX", "ts_loss_DX", "ts_backward_DX", "ts_clip_DX", "ts_step_DX"}

C13_DiscGradOwnLoss ==
    /\ [](\A d \in Discriminators :
             /\ lastStep[d].fired => lastStep[d].src = {C13_OwnLoss[d]}
             /\ pc = DPc[d].zero => "loss_gen_total" \in grad[d].src
             /\ pc \in {DPc[d].loss, DPc[d].backward} => grad[d] = NoGrad
             /\ pc \in {DPc[d].clip, DPc[d].step} => grad[d].src = {C13_OwnLoss[d]})
    /\ [][(pc \in C13_DXPcs) =>
             (grad'["DY"] = grad["DY"] /\ params'["DY"] = params["DY"])
       ]_vars

\* the second call of an epoch returns: both discriminators stepped on their
\* own loss alone, although the generator loss and the first call had left
\* gradients on them
C13_Witness ==
    /\ pc = "ts_return"
    /\ batch = 1
    /\ \A d \in Discriminators :
          /\ lastStep[d].fired /\ lastStep[d].clipped
          /\ lastStep[d].src = {C13_OwnLoss[d]}
          /\ params[d] = entryParams[d] + 1

\* the second call of an epoch reaches DX's zero_grad with the gradients of
\* the generator loss and of the first call's loss_DX on DX
C13_WitnessCleared ==
    /\ pc = "ts_zero_DX"
    /\ batch = 1
    /\ grad["DX"].src = {"loss_DX", "loss_gen_total"}
    /\ grad["DY"].src = {"loss_DY", "loss_gen_total"}

----------------------------------------------------------------------------
\* C14: while the training batches of epoch e run, the multiplier of every
\* optimizer is the schedule's value at index e - 1, and it is strictly
\* positive, in the final epoch N as well: every optimizer step of a call of
\* perform_train_step in epoch e is made with that multiplier, and every
\* optimizer step of a run with a positive one.  A multiplier becomes 0.0 in one place
\* only, the scheduler advancement that follows the last batch of epoch N,
\* and is 0.0 only from there on.
C14_Positive(a) == Lt(Float(0), a)

C14_MultiplierPositive ==
    /\ [](pc \in C10_TrainingPcs =>
             \A m \in Models :
                 /\ lr[m] = LrLambda(cfg.N, epoch - 1)
                 /\ C14_Positive(lr[m])
                 /\ (lastStep[m].fired /\ pc # "ep_batch") =>
                       /\ lastStep[m].lr = LrLambda(cfg.N, epoch - 1)
                       /\ C14_Positive(lastStep[m].lr))
    /\ [](\A m \in Models : lastStep[m].fired => C14_Positive(lastStep[m].lr))
    /\ [](\A m \in Models :
             (sched[m] >= 0 /\ ~C14_Positive(lr[m])) =>
                 /\ sched[m] = cfg.N /\ epoch = cfg.N
                 /\ pc \notin C10_TrainingPcs \cup {"ep_train_mode", "ep_sched"})
    /\ [][(\E m \in Models : C14_Positive(lr[m]) /\ ~C14_Positive(lr'[m])) =>
             (pc = "ep_sched" /\ epoch = cfg.N /\ batch = cfg.nTrain)
       ]_vars

\* the last call of the final epoch of a run of five epochs returns: its four
\* steps used the multiplier 1/3, the schedule's value at index 4
C14_Witness ==
    /\ pc = "ts_return"
    /\ cfg.N = 5 /\ epoch = 5
    /\ \A m \in Models :
          /\ lastStep[m].fired
          /\ lastStep[m].lr = [kind |-> "num", num |-> 1, den |-> 3]
          /\ params[m] = entryParams[m] + 1

\* the run of five epochs is over: the advancement after the last batch of
\* epoch 5 brought the multiplier to 0.0
C14_WitnessZero ==
    /\ pc = "ev_start"
    /\ cfg.N = 5 /\ epoch = 5
    /\ \A m \in Models : Eq(lr[m], Float(0)) /\ C14_Positive(lastStep[m].lr)

----------------------------------------------------------------------------
\* C15: for one dataset, seed and pair of age thresholds, the loaders that
\* the calls for train, valid and test build select pairwise disjoint sets
\* of file indices among the young files and among the old files, each index
\* once and only indices of its own domain; in every loader the young and
\* the old subset have the same length, the smaller of the two lengths
\* before the truncation, and the unpaired dataset has that length.
C15_Range(q) == {q[i] : i \in 1..Len(q)}

C15_SplitsDisjoint ==
    /\ \A s \in SplitNames :
          loaders[s].built =>
              /\ Len(loaders[s].part_y) = Len(loaders[s].part_o)
              /\ loaders[s].length = Len(loaders[s].part_y)
              /\ loaders[s].length = MinOf(loaders[s].len_y, loaders[s].len_o)
              /\ C15_Range(loaders[s].part_y) \subseteq C15_Range(YoungIdx(files))
              /\ C15_Range(loaders[s].part_o) \subseteq C15_Range(OldIdx(files))
              /\ Cardinality(C15_Range(loaders[s].part_y)) = loaders[s].length
              /\ Cardinality(C15_Range(loaders[s].part_o)) = loaders[s].length
    /\ \A s \in SplitNames, t \in SplitNames :
          (s # t /\ loaders[s].built /\ loaders[t].built) =>
              /\ C15_Range(loaders[s].part_y) \cap C15_Range(loaders[t].part_y) = {}
              /\ C15_Range(loaders[s].part_o) \cap C15_Range(loaders[t].part_o) = {}

\* the three loaders of a dataset of 14 young and 6 old files are built,
\* none of them empty, the young part of train cut from 11 to 4
C15_Witness ==
    /\ dataPc = "done"
    /\ Len(YoungIdx(files)) = 14 /\ Len(OldIdx(files)) = 6
    /\ \A s \in SplitNames : loaders[s].built /\ loaders[s].length >= 1
    /\ loaders["train"].len_y = 11
    /\ loaders["train"].length = 4
    /\ rng = [seed |-> Seed, drawn |-> <<14, 6>>]

====
